---- MODULE Spec2Model ----
(***************************************************************************)
(* Model of go-ipfs:                                                       *)
(*  - the filestore deletion pipeline (src/core/commands/active.go,        *)
(*    package filestore, lines 124-212): RmBlocks, FilterPinned and        *)
(*    AvailableElsewhere, with the collaborators they call (GC locker,     *)
(*    pinner, the two block backends);                                     *)
(*  - the add command's Run (src/unnamed/part_001, lines 131-307): option  *)
(*    checks, the adder, the producer goroutine and the emitting loop;     *)
(*  - the block rm command (src/unnamed/part_001, lines 759-888): Run and  *)
(*    the PostRun of the command line.                                     *)
(***************************************************************************)
EXTENDS Integers, Sequences, FiniteSets, TLC

(* ------------------------------ bounds --------------------------------- *)
MaxLen == 2
ConcMaxLen == 1
MaxStream == 2
MaxMarshals == 2
MaxBytes == 2
MaxProgress == 3
MaxAddEvents == 2
MaxFiles == 2
MaxEvents == 2
MaxBurst == 10

(* CIDs are handled one by one and independently of each other; two of     *)
(* them give every combination of two kinds in one request                 *)
CIDs == {1, 2}
Procs == {1, 2}

(* ----------------------------- constants ------------------------------- *)
FilestorePrefix == "/filestore"
BlockPrefix == "/blocks"
OtherPrefix == "/local"
Prefixes == {FilestorePrefix, BlockPrefix, OtherPrefix}

NoLock == 0
NoOutcome == [Hash |-> "", Error |-> ""]

ErrNil == "nil"
BsErrNotFound == "blockstore: block not found"
DsErrNotFound == "datastore: not found"
ErrIO == "input/output error"
PinReason == "pinned: recursive"
PinCheckFailed == "pin check failed: input/output error"

RECURSIVE SeqsUpTo(_)
SeqsUpTo(n) ==
    IF n = 0 THEN {<<>>}
    ELSE LET S == SeqsUpTo(n - 1)
         IN  S \cup {Append(s, c) : s \in {t \in S : Len(t) = n - 1}, c \in CIDs}

(* the requests of a single caller, and those of two concurrent callers *)
Requests ==
    [cids : SeqsUpTo(MaxLen), Prefix : Prefixes, Force : BOOLEAN, Quiet : BOOLEAN]
ConcRequests ==
    [cids : SeqsUpTo(ConcMaxLen), Prefix : {FilestorePrefix, BlockPrefix},
     Force : {FALSE}, Quiet : {FALSE}]

(* ---------------------- the add command: constants --------------------- *)
(* outChan := make(chan interface{}, 8) *)
OutChanCap == 8

ErrNormal == "ErrNormal"
ErrClient == "ErrClient"
ErrFilestoreNotEnabled == "filestore is not enabled, see https://git.io/vy4XN"
ErrNoCopyRawLeaves == "nocopy option requires '--raw-leaves' to be enabled as well"
ErrNextFile == "NextFile: read error"
ErrAddFile == "AddFile: input/output error"
ErrFinalize == "Finalize: input/output error"
ErrPinRoot == "PinRoot: input/output error"

(* the options of a request and the experimental filestore setting of the  *)
(* configuration; Bool() of an option that is not set yields false         *)
AddOptions ==
    {o \in [nocopy : BOOLEAN, rbset : BOOLEAN, rawblks : BOOLEAN,
            FilestoreEnabled : BOOLEAN, hash : BOOLEAN, dopin : BOOLEAN] :
        ~o.rbset => ~o.rawblks}

(* the calls of Run that can fail for reasons outside the command *)
EnvFailures == {"none", "GetNode", "Config", "NewNode", "NewAdder", "NewRoot"}

NoAdder ==
    [created |-> FALSE, RawLeaves |-> FALSE, NoCopy |-> FALSE, Pin |-> FALSE,
     MfsRoot |-> "none", node |-> "none"]

(* the block number of the root written by Finalize *)
RootBlock == 0

AddInit ==
    [runPc |-> "idle", prodPc |-> "idle",
     opts |-> [nocopy |-> FALSE, rbset |-> FALSE, rawblks |-> FALSE,
               FilestoreEnabled |-> FALSE, hash |-> FALSE, dopin |-> FALSE],
     adder |-> NoAdder,
     files |-> 0, fileNo |-> 0, err |-> ErrNil,
     outChan |-> <<>>, chanClosed |-> FALSE, produced |-> 0, sending |-> FALSE,
     blocks |-> [real |-> {}, nil |-> {}],
     pins |-> [real |-> {}, nil |-> {}],
     re |-> <<>>, log |-> <<>>]

(* ---------------- package commands: Response, constants ---------------- *)
ErrImplementation == "ErrImplementation"
ErrNotFound == "ErrNotFound"
ErrTypes == <<ErrNormal, ErrClient, ErrImplementation, ErrNotFound>>

NoEncoding == ""
JSON == "json"
ErrNoEncoding == "No encoding type was specified"

(* TestOutput{"beep", "boop", 1337} and a second value of the type *)
TestOutputs ==
    {[set |-> TRUE, Foo |-> "beep", Bar |-> "boop", Baz |-> 1337],
     [set |-> TRUE, Foo |-> "", Bar |-> "x", Baz |-> 0]}
NoOutput == [set |-> FALSE, Foo |-> "", Bar |-> "", Baz |-> 0]
NoError == [set |-> FALSE, Message |-> "", Code |-> ErrNormal]

RespInit ==
    [enc |-> NoEncoding, output |-> NoOutput, err |-> NoError, marshalled |-> <<>>]

(* -------------------- add's PostRun: constants -------------------------- *)
(* the error the upstream response ends with, or none *)
NoUpErr == [kind |-> "none", Message |-> "", Code |-> ""]
IoEOF == [kind |-> "io.EOF", Message |-> "EOF", Code |-> ""]
CmdsErrors ==
    {[kind |-> "cmdsutil.Error", Message |-> "boom", Code |-> c] : c \in {ErrNormal, ErrClient}}
PlainError == [kind |-> "error", Message |-> "unexpected EOF", Code |-> ""]
UpstreamEnds == {IoEOF, PlainError} \cup CmdsErrors

(* coreunix.AddedObject values: an 'added' event and a progress event *)
AddedObjects ==
    {[Hash |-> "Qm1", Name |-> "a", Bytes |-> 0], [Hash |-> "", Name |-> "a", Bytes |-> 1]}

(* progress events: an empty Hash, any name, the bytes read so far *)
ProgressNames == {"", "a", "b"}
ProgressEvents == {[Hash |-> "", Name |-> n, Bytes |-> b] : n \in ProgressNames, b \in 0..MaxBytes}

(* the options the progress printer reads *)
CliOptions == [progress : BOOLEAN, quiet : BOOLEAN, quieter : BOOLEAN]
ProgressOnly == [progress |-> TRUE, quiet |-> FALSE, quieter |-> FALSE]

(* the printer's variables at line 338-340, the two goroutines not started *)
APostInit ==
    [fwdPc |-> "idle", prPc |-> "idle", opts |-> ProgressOnly, taken |-> 0,
     v |-> [Hash |-> "", Name |-> "", Bytes |-> 0],
     upErr |-> NoUpErr, outClosed |-> FALSE, waitClosed |-> FALSE, ctxDone |-> FALSE,
     lastFile |-> "", lastHash |-> "", totalProgress |-> 0, prevFiles |-> 0,
     lastBytes |-> 0, seen |-> <<>>, totals |-> <<>>, lines |-> <<>>, re |-> <<>>]

(* -------------------- the block rm command: constants ------------------ *)
(* an argument that is not the textual form of a CID *)
BadHash == "zz"
ErrDecode == "selected encoding not supported"
SomeNotRemoved == "some blocks not removed"
ErrContext == "context canceled"

BrmInit ==
    [runPc |-> "idle", args |-> <<>>, force |-> FALSE, quiet |-> FALSE, cids |-> <<>>,
     re |-> <<>>]

PostInit ==
    [pc |-> "idle", items |-> <<>>, last |-> "EOF", received |-> <<>>,
     someFailed |-> FALSE, lines |-> <<>>, re |-> <<>>]

(* c.String(): the textual form of a CID *)
CidString(c) == "Qm" \o ToString(c)

VARIABLES
    fs,         \* the Filestore: [bs |-> plain block store, fm |-> filestore manager]
    pinned,     \* the pin set consulted by CheckIfPinned
    gcLock,     \* holder of the exclusive GC lock, NoLock when free
    pc,         \* position of each RmBlocks call / worker goroutine
    opts,       \* u.RmBlocksOpts of each call
    cids,       \* the CID list of each call
    blocks,     \* the Deleter selected by each call
    out,        \* the outcome channel's buffer, capacity len(cids)
    closed,     \* whether the channel has been closed
    res,        \* result of CheckIfPinned
    stillOkay,  \* CIDs that passed FilterPinned
    idx,        \* loop index of the running range loop
    pending,    \* the outcome the worker is about to send
    retErr,     \* error returned by RmBlocks
    sent,       \* history: every outcome sent on the channel
    delLog,     \* history: every DeleteBlock invocation
    calls,      \* history: the collaborators each call has invoked
    fs0,        \* history: the Filestore before any call
    cancelled,  \* whether the caller of each call has cancelled its request
    add,        \* the state of one run of the add command
    brm,        \* the state of one run of the block rm command
    post,       \* the state of block rm's PostRun for the command line
    resp,       \* a Response of package commands and the encoding of its request
    apost       \* the state of add's PostRun for the command line

vars == <<fs, pinned, gcLock, pc, opts, cids, blocks, out, closed, res,
          stillOkay, idx, pending, retErr, sent, delLog, calls, fs0, cancelled,
          add, brm, post, resp, apost>>

storeVars == <<fs, pinned, fs0>>
callVars == <<opts, cids, blocks, retErr>>
otherVars == <<cancelled, add, brm, post, resp, apost>>

(* ------------------------- collaborators ------------------------------- *)
(* Blockstore.Has *)
Has(store, c) == c \in store

(* Deleter.DeleteBlock on backend b: fail = TRUE is a storage failure *)
DeleteBlock(f, b, c, fail) ==
    IF fail THEN [fs |-> f, err |-> ErrIO]
    ELSE IF ~Has(f[b], c)
         THEN [fs |-> f, err |-> IF b = "bs" THEN BsErrNotFound ELSE DsErrNotFound]
         ELSE [fs |-> [f EXCEPT ![b] = @ \ {c}], err |-> ErrNil]

(* pins.CheckIfPinned(cids...): one result per requested CID *)
CheckIfPinned(pins, cs) ==
    [i \in 1..Len(cs) |-> [Key |-> cs[i], Pinned |-> cs[i] \in pins]]

(* the other backend of the Filestore *)
Sibling(b) == IF b = "fm" THEN "bs" ELSE "fm"

(* --------------------------- pure helpers ------------------------------ *)
(* variant: the default case of the switch falls back to the block store *)
SelectDeleter_DefaultBlocks(prefix) ==
    IF prefix = FilestorePrefix THEN "fm" ELSE "bs"

(* the switch on opts.Prefix *)
SelectDeleter(prefix) ==
    IF prefix = FilestorePrefix THEN "fm"
    ELSE IF prefix = BlockPrefix THEN "bs"
    ELSE "nil"

(* variant: each backend is asked about itself *)
AvailableElsewhere_OwnBackend(f, foundIn, c) ==
    IF foundIn = "fm" THEN Has(f.fm, c)
    ELSE IF foundIn = "bs" THEN Has(f.bs, c)
    ELSE FALSE

(* AvailableElsewhere: the switch on foundIn *)
AvailableElsewhere(f, foundIn, c) ==
    IF foundIn = "fm" THEN Has(f.bs, c)
    ELSE IF foundIn = "bs" THEN Has(f.fm, c)
    ELSE FALSE

(* variant: availability is asked of the backend the delete targets *)
FilterKeep_SameBackend(f, foundIn, r) ==
    ~r.Pinned \/ AvailableElsewhere(f, Sibling(foundIn), r.Key)

(* the test of FilterPinned's loop body *)
FilterKeep(f, foundIn, r) ==
    ~r.Pinned \/ AvailableElsewhere(f, foundIn, r.Key)

(* variant: Quiet is tested before the error *)
DeleteOutcome_QuietHidesErrors(o, c, err) ==
    IF err # ErrNil /\ o.Force /\ (err = BsErrNotFound \/ err = DsErrNotFound)
    THEN NoOutcome
    ELSE IF o.Quiet THEN NoOutcome
    ELSE IF err # ErrNil THEN [Hash |-> CidString(c), Error |-> err]
    ELSE [Hash |-> CidString(c), Error |-> ""]

(* variant: Quiet also ignores non-existent blocks *)
DeleteOutcome_QuietHidesNotFound(o, c, err) ==
    IF err # ErrNil /\ (o.Force \/ o.Quiet) /\ (err = BsErrNotFound \/ err = DsErrNotFound)
    THEN NoOutcome
    ELSE IF err # ErrNil THEN [Hash |-> CidString(c), Error |-> err]
    ELSE IF ~o.Quiet THEN [Hash |-> CidString(c), Error |-> ""]
    ELSE NoOutcome

(* variant: Force ignores every delete error *)
DeleteOutcome_ForceHidesAll(o, c, err) ==
    IF err # ErrNil /\ o.Force
    THEN NoOutcome
    ELSE IF err # ErrNil THEN [Hash |-> CidString(c), Error |-> err]
    ELSE IF ~o.Quiet THEN [Hash |-> CidString(c), Error |-> ""]
    ELSE NoOutcome

(* the outcome of one iteration of the delete loop *)
DeleteOutcome(o, c, err) ==
    IF err # ErrNil /\ o.Force /\ (err = BsErrNotFound \/ err = DsErrNotFound)
    THEN NoOutcome
    ELSE IF err # ErrNil THEN [Hash |-> CidString(c), Error |-> err]
    ELSE IF ~o.Quiet THEN [Hash |-> CidString(c), Error |-> ""]
    ELSE NoOutcome

(* ---------------------- the worker as a function ----------------------- *)
(* FilterPinned's loop over the results rs, run to its end: the keys kept  *)
(* and the outcomes sent                                                   *)
RECURSIVE RunFilterPinned(_, _, _)
RunFilterPinned(f, foundIn, rs) ==
    IF rs = <<>> THEN [ok |-> <<>>, outs |-> <<>>]
    ELSE LET r == Head(rs)
             rest == RunFilterPinned(f, foundIn, Tail(rs))
         IN  IF FilterKeep(f, foundIn, r)
             THEN [ok |-> <<r.Key>> \o rest.ok, outs |-> rest.outs]
             ELSE [ok |-> rest.ok,
                   outs |-> <<[Hash |-> CidString(r.Key), Error |-> PinReason]>> \o rest.outs]

(* the delete loop over the keys ks, run to its end; fails[k] tells        *)
(* whether the k-th DeleteBlock meets a storage failure                    *)
RECURSIVE RunDeleteLoop(_, _, _, _, _)
RunDeleteLoop(f, b, o, ks, fails) ==
    IF ks = <<>> THEN [fs |-> f, outs |-> <<>>]
    ELSE LET d == DeleteBlock(f, b, Head(ks), Head(fails))
             oc == DeleteOutcome(o, Head(ks), d.err)
             rest == RunDeleteLoop(d.fs, b, o, Tail(ks), Tail(fails))
         IN  [fs |-> rest.fs,
              outs |-> (IF oc = NoOutcome THEN <<>> ELSE <<oc>>) \o rest.outs]

(* the worker goroutine of RmBlocks, run to its end *)
RunWorker(f, pins, b, o, cs, pinFail, fails) ==
    IF pinFail
    THEN [fs |-> f, sent |-> <<[Hash |-> "", Error |-> PinCheckFailed]>>]
    ELSE LET flt == RunFilterPinned(f, b, CheckIfPinned(pins, cs))
             del == RunDeleteLoop(f, b, o, flt.ok, fails)
         IN  [fs |-> del.fs, sent |-> flt.outs \o del.outs]

(* ------------------------------ Init ----------------------------------- *)
(* CIDs are interchangeable: the initial stores and pin set are taken up   *)
(* to a renaming of the CIDs (a CID's kind never decreases with its index) *)
CidKind(f, pins, c) ==
    (IF c \in pins THEN 4 ELSE 0) + (IF c \in f.bs THEN 2 ELSE 0)
        + (IF c \in f.fm THEN 1 ELSE 0)

Init ==
    /\ fs \in [bs : SUBSET CIDs, fm : SUBSET CIDs]
    /\ pinned \in SUBSET CIDs
    /\ \A c \in CIDs, d \in CIDs : c < d => CidKind(fs, pinned, c) <= CidKind(fs, pinned, d)
    /\ gcLock = NoLock
    /\ pc = [p \in Procs |-> "idle"]
    /\ opts = [p \in Procs |-> [Prefix |-> FilestorePrefix, Force |-> FALSE, Quiet |-> FALSE]]
    /\ cids = [p \in Procs |-> <<>>]
    /\ blocks = [p \in Procs |-> "nil"]
    /\ out = [p \in Procs |-> <<>>]
    /\ closed = [p \in Procs |-> FALSE]
    /\ res = [p \in Procs |-> <<>>]
    /\ stillOkay = [p \in Procs |-> <<>>]
    /\ idx = [p \in Procs |-> 0]
    /\ pending = [p \in Procs |-> NoOutcome]
    /\ retErr = [p \in Procs |-> ErrNil]
    /\ sent = [p \in Procs |-> <<>>]
    /\ delLog = <<>>
    /\ calls = [p \in Procs |-> {}]
    /\ fs0 = fs
    /\ cancelled = [p \in Procs |-> FALSE]
    /\ add = AddInit
    /\ brm = BrmInit
    /\ post = PostInit
    /\ resp = RespInit
    /\ apost = APostInit

(* ----------------------------- actions --------------------------------- *)
(* variant: the default case of the switch does not return *)
RmBlocks_NoDefaultReturn(p, req) ==
    /\ pc[p] = "idle"
    /\ cids' = [cids EXCEPT ![p] = req.cids]
    /\ opts' = [opts EXCEPT ![p] =
                  [Prefix |-> req.Prefix, Force |-> req.Force, Quiet |-> req.Quiet]]
    /\ blocks' = [blocks EXCEPT ![p] = SelectDeleter(req.Prefix)]
    /\ retErr' = retErr
    /\ pc' = [pc EXCEPT ![p] = "lock"]
    /\ UNCHANGED <<otherVars, storeVars, gcLock, out, closed, res, stillOkay, idx, pending,
                   sent, delLog, calls>>

(* RmBlocks up to its return: make the channel, select the Deleter, start  *)
(* the worker unless the prefix is unknown                                 *)
RmBlocks(p, req) ==
    /\ pc[p] = "idle"
    /\ cids' = [cids EXCEPT ![p] = req.cids]
    /\ opts' = [opts EXCEPT ![p] =
                  [Prefix |-> req.Prefix, Force |-> req.Force, Quiet |-> req.Quiet]]
    /\ blocks' = [blocks EXCEPT ![p] = SelectDeleter(req.Prefix)]
    /\ IF SelectDeleter(req.Prefix) = "nil"
       THEN /\ retErr' = [retErr EXCEPT ![p] = "Unknown prefix: " \o req.Prefix]
            /\ pc' = [pc EXCEPT ![p] = "rejected"]
       ELSE /\ retErr' = retErr
            /\ pc' = [pc EXCEPT ![p] = "lock"]
    /\ UNCHANGED <<otherVars, storeVars, gcLock, out, closed, res, stillOkay, idx, pending, sent,
                   delLog, calls>>

(* variant: the worker goes on without taking the lock *)
GCLock_Skipped(p) ==
    /\ pc[p] = "lock"
    /\ gcLock' = gcLock
    /\ calls' = [calls EXCEPT ![p] = @ \cup {"GCLock"}]
    /\ pc' = [pc EXCEPT ![p] = "check"]
    /\ UNCHANGED <<otherVars, storeVars, callVars, out, closed, res, stillOkay, idx, pending, sent, delLog>>

(* unlocker := lock.GCLock() *)
GCLock(p) ==
    /\ pc[p] = "lock"
    /\ gcLock = NoLock
    /\ gcLock' = p
    /\ calls' = [calls EXCEPT ![p] = @ \cup {"GCLock"}]
    /\ pc' = [pc EXCEPT ![p] = "check"]
    /\ UNCHANGED <<otherVars, storeVars, callVars, out, closed, res, stillOkay, idx, pending, sent, delLog>>

(* variant: after a failed pin check FilterPinned reports the failure and  *)
(* returns the whole list                                                  *)
PinCheck_FailKeepsAll(p) ==
    /\ pc[p] = "check"
    /\ calls' = [calls EXCEPT ![p] = @ \cup {"CheckIfPinned"}]
    /\ \E fail \in BOOLEAN :
        IF fail
        THEN /\ pending' = [pending EXCEPT ![p] = [Hash |-> "", Error |-> PinCheckFailed]]
             /\ stillOkay' = [stillOkay EXCEPT ![p] = cids[p]]
             /\ idx' = [idx EXCEPT ![p] = 0]
             /\ pc' = [pc EXCEPT ![p] = "dsend"]
             /\ UNCHANGED res
        ELSE /\ res' = [res EXCEPT ![p] = CheckIfPinned(pinned, cids[p])]
             /\ stillOkay' = [stillOkay EXCEPT ![p] = <<>>]
             /\ idx' = [idx EXCEPT ![p] = 1]
             /\ pc' = [pc EXCEPT ![p] = "filter"]
             /\ UNCHANGED pending
    /\ UNCHANGED <<otherVars, storeVars, gcLock, callVars, out, closed, sent, delLog>>

(* FilterPinned: res, err := pins.CheckIfPinned(cids...) *)
PinCheck(p) ==
    /\ pc[p] = "check"
    /\ calls' = [calls EXCEPT ![p] = @ \cup {"CheckIfPinned"}]
    /\ \E fail \in BOOLEAN :
        IF fail
        THEN /\ pending' = [pending EXCEPT ![p] = [Hash |-> "", Error |-> PinCheckFailed]]
             /\ pc' = [pc EXCEPT ![p] = "sendfail"]
             /\ UNCHANGED <<res, stillOkay, idx>>
        ELSE /\ res' = [res EXCEPT ![p] = CheckIfPinned(pinned, cids[p])]
             /\ stillOkay' = [stillOkay EXCEPT ![p] = <<>>]
             /\ idx' = [idx EXCEPT ![p] = 1]
             /\ pc' = [pc EXCEPT ![p] = "filter"]
             /\ UNCHANGED pending
    /\ UNCHANGED <<otherVars, storeVars, gcLock, callVars, out, closed, sent, delLog>>

(* variant: a refused key is reported and still appended to stillOkay *)
FilterPinned_FallThrough(p) ==
    /\ pc[p] = "filter"
    /\ IF idx[p] > Len(res[p])
       THEN /\ idx' = [idx EXCEPT ![p] = 1]
            /\ pc' = [pc EXCEPT ![p] = "delete"]
            /\ UNCHANGED <<stillOkay, pending>>
       ELSE LET r == res[p][idx[p]]
            IN  /\ stillOkay' = [stillOkay EXCEPT ![p] = Append(@, r.Key)]
                /\ IF FilterKeep(fs, blocks[p], r)
                   THEN /\ idx' = [idx EXCEPT ![p] = @ + 1]
                        /\ UNCHANGED <<pc, pending>>
                   ELSE /\ pending' = [pending EXCEPT ![p] =
                                          [Hash |-> CidString(r.Key), Error |-> PinReason]]
                        /\ pc' = [pc EXCEPT ![p] = "fsend"]
                        /\ UNCHANGED idx
    /\ UNCHANGED <<otherVars, storeVars, gcLock, callVars, out, closed, res, sent, delLog, calls>>

(* variant: a kept key is put in front of stillOkay *)
FilterPinned_Prepend(p) ==
    /\ pc[p] = "filter"
    /\ IF idx[p] > Len(res[p])
       THEN /\ idx' = [idx EXCEPT ![p] = 1]
            /\ pc' = [pc EXCEPT ![p] = "delete"]
            /\ UNCHANGED <<stillOkay, pending>>
       ELSE LET r == res[p][idx[p]]
            IN  IF FilterKeep(fs, blocks[p], r)
                THEN /\ stillOkay' = [stillOkay EXCEPT ![p] = <<r.Key>> \o @]
                     /\ idx' = [idx EXCEPT ![p] = @ + 1]
                     /\ UNCHANGED <<pc, pending>>
                ELSE /\ pending' = [pending EXCEPT ![p] =
                                       [Hash |-> CidString(r.Key), Error |-> PinReason]]
                     /\ pc' = [pc EXCEPT ![p] = "fsend"]
                     /\ UNCHANGED <<stillOkay, idx>>
    /\ UNCHANGED <<otherVars, storeVars, gcLock, callVars, out, closed, res, sent, delLog, calls>>

(* FilterPinned: one iteration of  for _, r := range res *)
FilterPinned(p) ==
    /\ pc[p] = "filter"
    /\ IF idx[p] > Len(res[p])
       THEN /\ idx' = [idx EXCEPT ![p] = 1]
            /\ pc' = [pc EXCEPT ![p] = "delete"]
            /\ UNCHANGED <<stillOkay, pending>>
       ELSE LET r == res[p][idx[p]]
            IN  IF FilterKeep(fs, blocks[p], r)
                THEN /\ stillOkay' = [stillOkay EXCEPT ![p] = Append(@, r.Key)]
                     /\ idx' = [idx EXCEPT ![p] = @ + 1]
                     /\ UNCHANGED <<pc, pending>>
                ELSE /\ pending' = [pending EXCEPT ![p] =
                                       [Hash |-> CidString(r.Key), Error |-> PinReason]]
                     /\ pc' = [pc EXCEPT ![p] = "fsend"]
                     /\ UNCHANGED <<stillOkay, idx>>
    /\ UNCHANGED <<otherVars, storeVars, gcLock, callVars, out, closed, res, sent, delLog, calls>>

(* the worker's position after a send: FilterPinned returns nil after the *)
(* pin-check failure, so the delete loop has nothing to do                 *)
Sent(p) ==
    /\ sent' = [sent EXCEPT ![p] = Append(@, pending[p])]
    /\ pending' = [pending EXCEPT ![p] = NoOutcome]
    /\ IF pc[p] = "sendfail"
       THEN /\ pc' = [pc EXCEPT ![p] = "unlock"]
            /\ UNCHANGED idx
       ELSE /\ pc' = [pc EXCEPT ![p] = IF pc[p] = "fsend" THEN "filter" ELSE "delete"]
            /\ idx' = [idx EXCEPT ![p] = @ + 1]

SendPcs == {"sendfail", "fsend", "dsend"}

(* out <- outcome into the buffer: blocks while the buffer is full *)
Send(p) ==
    /\ pc[p] \in SendPcs
    /\ Len(out[p]) < Len(cids[p])
    /\ out' = [out EXCEPT ![p] = Append(@, pending[p])]
    /\ Sent(p)
    /\ UNCHANGED <<otherVars, storeVars, gcLock, callVars, closed, res, stillOkay, delLog, calls>>

(* one iteration of  for _, c := range stillOkay *)
DeleteLoop(p) ==
    /\ pc[p] = "delete"
    /\ IF idx[p] > Len(stillOkay[p])
       THEN /\ pc' = [pc EXCEPT ![p] = "unlock"]
            /\ UNCHANGED <<fs, pending, idx, delLog, calls>>
       ELSE \E fail \in BOOLEAN :
            LET c == stillOkay[p][idx[p]]
                d == DeleteBlock(fs, blocks[p], c, fail)
                o == DeleteOutcome(opts[p], c, d.err)
            IN  /\ fs' = d.fs
                /\ calls' = [calls EXCEPT ![p] = @ \cup {"DeleteBlock"}]
                /\ delLog' = Append(delLog,
                      [proc |-> p, cid |-> c, backend |-> blocks[p], err |-> d.err,
                       holder |-> gcLock, cancelled |-> cancelled[p],
                       pinned |-> \E i \in 1..Len(res[p]) :
                                     res[p][i].Key = c /\ res[p][i].Pinned,
                       elsewhere |-> Has(fs[Sibling(blocks[p])], c)])
                /\ IF o = NoOutcome
                   THEN /\ idx' = [idx EXCEPT ![p] = @ + 1]
                        /\ UNCHANGED <<pc, pending>>
                   ELSE /\ pending' = [pending EXCEPT ![p] = o]
                        /\ pc' = [pc EXCEPT ![p] = "dsend"]
                        /\ UNCHANGED idx
    /\ UNCHANGED <<otherVars, pinned, fs0, gcLock, callVars, out, closed, res, stillOkay, sent>>

(* out <- outcome on a channel of capacity 0: the send completes only when *)
(* the consumer receives                                                   *)
Handoff(p) ==
    /\ pc[p] \in SendPcs
    /\ Len(cids[p]) = 0
    /\ Sent(p)
    /\ UNCHANGED <<otherVars, storeVars, gcLock, callVars, out, closed, res, stillOkay, delLog, calls>>

(* variant: the unlock is not deferred, the pin-check failure path skips it *)
Unlock_NotDeferred(p) ==
    /\ pc[p] = "unlock"
    /\ gcLock' = IF gcLock = p /\ res[p] # <<>> THEN NoLock ELSE gcLock
    /\ pc' = [pc EXCEPT ![p] = "close"]
    /\ UNCHANGED <<otherVars, storeVars, callVars, out, closed, res, stillOkay, idx, pending, sent,
                   delLog, calls>>

(* deferred unlocker.Unlock() *)
Unlock(p) ==
    /\ pc[p] = "unlock"
    /\ gcLock' = IF gcLock = p THEN NoLock ELSE gcLock
    /\ pc' = [pc EXCEPT ![p] = "close"]
    /\ UNCHANGED <<otherVars, storeVars, callVars, out, closed, res, stillOkay, idx, pending, sent,
                   delLog, calls>>

(* variant: close(out) is deferred last and so runs before the unlock *)
Close_BeforeUnlock(p) ==
    /\ pc[p] = "unlock"
    /\ ~closed[p]
    /\ closed' = [closed EXCEPT ![p] = TRUE]
    /\ UNCHANGED <<otherVars, storeVars, gcLock, pc, callVars, out, res, stillOkay, idx,
                   pending, sent, delLog, calls>>

(* deferred close(out) *)
Close(p) ==
    /\ pc[p] = "close"
    /\ closed' = [closed EXCEPT ![p] = TRUE]
    /\ pc' = [pc EXCEPT ![p] = "done"]
    /\ UNCHANGED <<otherVars, storeVars, gcLock, callVars, out, res, stillOkay, idx, pending, sent,
                   delLog, calls>>

(* the consumer of the returned channel receives one outcome *)
Receive(p) ==
    /\ pc[p] \notin {"idle", "rejected"}
    /\ out[p] # <<>>
    /\ out' = [out EXCEPT ![p] = Tail(@)]
    /\ UNCHANGED <<otherVars, storeVars, gcLock, pc, callVars, closed, res, stillOkay, idx, pending,
                   sent, delLog, calls>>

(* the caller cancels its request while the worker is in its delete loop.  *)
(* RmBlocks takes no context and no done channel: the worker has nothing   *)
(* to read the cancellation from                                           *)
Cancel(p) ==
    /\ pc[p] \in {"delete", "dsend"}
    /\ ~cancelled[p]
    /\ cancelled' = [cancelled EXCEPT ![p] = TRUE]
    /\ UNCHANGED <<add, brm, post, resp, apost, storeVars, gcLock, pc, callVars, out, closed, res,
                   stillOkay, idx, pending, sent, delLog, calls>>

(* the steps of the worker goroutine and of the channel's consumer *)
Worker(p) ==
    \/ GCLock(p)
    \/ PinCheck(p)
    \/ FilterPinned(p)
    \/ Send(p)
    \/ Handoff(p)
    \/ DeleteLoop(p)
    \/ Unlock(p)
    \/ Close(p)
    \/ Receive(p)

(* one caller, any request *)
Next ==
    \/ \E req \in Requests : RmBlocks(1, req)
    \/ Worker(1)

Spec == Init /\ [][Next]_vars

(* one caller that may cancel its request *)
NextCancel ==
    \/ Next
    \/ Cancel(1)

SpecCancel == Init /\ [][NextCancel]_vars

(* two concurrent callers. Their consumers are left out: a consumer only   *)
(* empties a buffer, and the buffer of a non-empty request never fills; an *)
(* empty request's only send is the Handoff, which is a consumer's receive *)
NextConc ==
    \E p \in Procs :
        \/ \E req \in ConcRequests : RmBlocks(p, req)
        \/ GCLock(p)
        \/ PinCheck(p)
        \/ FilterPinned(p)
        \/ Send(p)
        \/ Handoff(p)
        \/ DeleteLoop(p)
        \/ Unlock(p)
        \/ Close(p)

SpecConc == Init /\ [][NextConc]_vars

(* ------------------------- the add command ----------------------------- *)
(* what the response emitter is asked to do *)
ReEmit(v) == [op |-> "Emit", v |-> v, err |-> ErrNil, code |-> ""]
ReSetError(e, code) == [op |-> "SetError", v |-> 0, err |-> e, code |-> code]
ReClose == [op |-> "Close", v |-> 0, err |-> ErrNil, code |-> ""]

(* a call of the adder or of the file iterator and the error it returned *)
AdderCall(name, e) == [call |-> name, err |-> e]

(* the adder Run builds and configures from the options *)
NewAdder(o, rawblks) ==
    [created |-> TRUE, RawLeaves |-> rawblks, NoCopy |-> o.nocopy, Pin |-> o.dopin,
     MfsRoot |-> IF o.hash THEN "mock" ELSE "node",
     node |-> IF o.hash THEN "nil" ELSE "real"]

(* the adder stores block b in the block store of the node it was built on *)
AdderPut(a, b) == [a.blocks EXCEPT ![a.adder.node] = @ \cup {b}]

(* Adder.PinRoot pins the root in the pinner of the adder's node when the  *)
(* adder's Pin field is set                                                *)
AdderPinRoot(a) ==
    IF a.adder.Pin THEN [a.pins EXCEPT ![a.adder.node] = @ \cup {RootBlock}] ELSE a.pins

(* variant: a missing --raw-leaves is not defaulted and not required *)
AddSetup_NoRawLeavesCheck(o, envFail) ==
    IF envFail \in {"GetNode", "Config"}
    THEN [err |-> ErrIO, code |-> ErrNormal, adder |-> NoAdder]
    ELSE IF o.nocopy /\ ~o.FilestoreEnabled
    THEN [err |-> ErrFilestoreNotEnabled, code |-> ErrClient, adder |-> NoAdder]
    ELSE IF (o.hash /\ envFail = "NewNode") \/ envFail = "NewAdder"
         THEN [err |-> ErrIO, code |-> ErrNormal, adder |-> NoAdder]
         ELSE IF o.hash /\ envFail = "NewRoot"
         THEN [err |-> ErrIO, code |-> ErrNormal, adder |-> NewAdder(o, o.rawblks)]
         ELSE [err |-> ErrNil, code |-> "", adder |-> NewAdder(o, o.rawblks)]

(* Run from its first line to the start of the producer goroutine: the     *)
(* error it sets, if any, and the adder it has built                       *)
AddSetup(o, envFail) ==
    IF envFail \in {"GetNode", "Config"}
    THEN [err |-> ErrIO, code |-> ErrNormal, adder |-> NoAdder]
    ELSE IF o.nocopy /\ ~o.FilestoreEnabled
    THEN [err |-> ErrFilestoreNotEnabled, code |-> ErrClient, adder |-> NoAdder]
    ELSE LET rawblks == IF o.nocopy /\ ~o.rbset THEN TRUE ELSE o.rawblks
         IN  IF o.nocopy /\ ~rawblks
             THEN [err |-> ErrNoCopyRawLeaves, code |-> ErrNormal, adder |-> NoAdder]
             ELSE IF (o.hash /\ envFail = "NewNode") \/ envFail = "NewAdder"
             THEN [err |-> ErrIO, code |-> ErrNormal, adder |-> NoAdder]
             ELSE IF o.hash /\ envFail = "NewRoot"
             THEN [err |-> ErrIO, code |-> ErrNormal, adder |-> NewAdder(o, rawblks)]
             ELSE [err |-> ErrNil, code |-> "", adder |-> NewAdder(o, rawblks)]

(* everything but the add command *)
rmVars == <<cancelled, brm, post, resp, apost, storeVars, gcLock, pc, callVars, out, closed, res,
            stillOkay, idx, pending, sent, delLog, calls>>

(* Run up to  go func() : on an error it sets the error and returns, the   *)
(* deferred re.Close() not being registered yet                            *)
AddRun(o, envFail, n) ==
    /\ add.runPc = "idle"
    /\ LET st == AddSetup(o, envFail)
       IN  add' = IF st.err # ErrNil
                  THEN [add EXCEPT !.runPc = "failed", !.opts = o, !.adder = st.adder,
                                   !.re = Append(@, ReSetError(st.err, st.code))]
                  ELSE [add EXCEPT !.runPc = "loop", !.prodPc = "next", !.opts = o,
                                   !.adder = st.adder, !.files = n]
    /\ UNCHANGED rmVars

(* addAllAndPin:  file, err := f.NextFile() *)
NextFile ==
    /\ add.prodPc = "next"
    /\ \E fail \in BOOLEAN :
        add' = IF fail
               THEN [add EXCEPT !.err = ErrNextFile, !.prodPc = "seterr",
                                !.log = Append(@, AdderCall("NextFile", ErrNextFile))]
               ELSE IF add.files = 0
               THEN [add EXCEPT !.prodPc = "finalize",
                                !.log = Append(@, AdderCall("NextFile", "EOF"))]
               ELSE [add EXCEPT !.prodPc = "addfile", !.files = @ - 1, !.fileNo = @ + 1,
                                !.log = Append(@, AdderCall("NextFile", ErrNil))]
    /\ UNCHANGED rmVars

(* the adder, inside AddFile or Finalize, comes to a send of an event on   *)
(* Out; limit bounds the number of events of a run                         *)
AdderSend(limit) ==
    /\ add.prodPc \in {"addfile", "finalize"}
    /\ ~add.sending
    /\ add.produced < limit
    /\ add' = [add EXCEPT !.sending = TRUE]
    /\ UNCHANGED rmVars

(* variant: the adder's output does not wait for room in the channel *)
AdderEmit_Unbounded ==
    /\ add.sending
    /\ add' = [add EXCEPT !.outChan = Append(@, add.produced + 1), !.produced = @ + 1,
                          !.sending = FALSE]
    /\ UNCHANGED rmVars

(* the send of the adder completes: it blocks while the channel holds     *)
(* OutChanCap events                                                       *)
AdderEmit ==
    /\ add.sending
    /\ Len(add.outChan) < OutChanCap
    /\ add' = [add EXCEPT !.outChan = Append(@, add.produced + 1), !.produced = @ + 1,
                          !.sending = FALSE]
    /\ UNCHANGED rmVars

(* variant: the loop goes on to the next file after a failed AddFile *)
AddFile_ErrorIgnored ==
    /\ add.prodPc = "addfile"
    /\ ~add.sending
    /\ \E fail \in BOOLEAN :
        add' = IF fail
               THEN [add EXCEPT !.prodPc = "next",
                                !.log = Append(@, AdderCall("AddFile", ErrAddFile))]
               ELSE [add EXCEPT !.prodPc = "next",
                                !.blocks = AdderPut(add, add.fileNo),
                                !.log = Append(@, AdderCall("AddFile", ErrNil))]
    /\ UNCHANGED rmVars

(* addAllAndPin:  fileAdder.AddFile(file) returns; the file's block is in  *)
(* the block store of the node the adder was built on                      *)
AddFile ==
    /\ add.prodPc = "addfile"
    /\ ~add.sending
    /\ \E fail \in BOOLEAN :
        add' = IF fail
               THEN [add EXCEPT !.err = ErrAddFile, !.prodPc = "seterr",
                                !.log = Append(@, AdderCall("AddFile", ErrAddFile))]
               ELSE [add EXCEPT !.prodPc = "next",
                                !.blocks = AdderPut(add, add.fileNo),
                                !.log = Append(@, AdderCall("AddFile", ErrNil))]
    /\ UNCHANGED rmVars

(* variant: only-hash does not return before PinRoot *)
Finalize_ThenPinRoot ==
    /\ add.prodPc = "finalize"
    /\ ~add.sending
    /\ \E fail \in BOOLEAN :
        add' = IF fail
               THEN [add EXCEPT !.err = ErrFinalize, !.prodPc = "seterr",
                                !.log = Append(@, AdderCall("Finalize", ErrFinalize))]
               ELSE [add EXCEPT !.prodPc = "pin",
                                !.blocks = AdderPut(add, RootBlock),
                                !.log = Append(@, AdderCall("Finalize", ErrNil))]
    /\ UNCHANGED rmVars

(* addAllAndPin:  fileAdder.Finalize() returns, then  if hash return nil  *)
Finalize ==
    /\ add.prodPc = "finalize"
    /\ ~add.sending
    /\ \E fail \in BOOLEAN :
        add' = IF fail
               THEN [add EXCEPT !.err = ErrFinalize, !.prodPc = "seterr",
                                !.log = Append(@, AdderCall("Finalize", ErrFinalize))]
               ELSE [add EXCEPT !.prodPc = IF add.opts.hash THEN "close" ELSE "pin",
                                !.blocks = AdderPut(add, RootBlock),
                                !.log = Append(@, AdderCall("Finalize", ErrNil))]
    /\ UNCHANGED rmVars

(* addAllAndPin:  return fileAdder.PinRoot() ; the adder pins the root     *)
(* when its Pin field is set                                               *)
PinRoot ==
    /\ add.prodPc = "pin"
    /\ \E fail \in BOOLEAN :
        add' = IF fail
               THEN [add EXCEPT !.err = ErrPinRoot, !.prodPc = "seterr",
                                !.log = Append(@, AdderCall("PinRoot", ErrPinRoot))]
               ELSE [add EXCEPT !.prodPc = "close",
                                !.pins = AdderPinRoot(add),
                                !.log = Append(@, AdderCall("PinRoot", ErrNil))]
    /\ UNCHANGED rmVars

(* the producer goroutine:  if err != nil  re.SetError(err, ErrNormal)  *)
ProducerSetError ==
    /\ add.prodPc = "seterr"
    /\ add' = [add EXCEPT !.prodPc = "close",
                          !.re = Append(@, ReSetError(add.err, ErrNormal))]
    /\ UNCHANGED rmVars

(* the producer goroutine:  deferred close(outChan)  *)
CloseOutChan ==
    /\ add.prodPc = "close"
    /\ add' = [add EXCEPT !.prodPc = "done", !.chanClosed = TRUE]
    /\ UNCHANGED rmVars

(* Run:  for v := range outChan  with the deferred re.Close(): one         *)
(* iteration, or the end of the loop when the channel is closed and empty  *)
RunLoop ==
    /\ add.runPc = "loop"
    /\ IF add.outChan # <<>>
       THEN \E ok \in BOOLEAN :
            add' = IF ok
                   THEN [add EXCEPT !.outChan = Tail(@),
                                    !.re = Append(@, ReEmit(Head(add.outChan)))]
                   ELSE [add EXCEPT !.outChan = Tail(@), !.runPc = "returned",
                                    !.re = Append(@, ReClose)]
       ELSE /\ add.chanClosed
            /\ add' = [add EXCEPT !.runPc = "returned", !.re = Append(@, ReClose)]
    /\ UNCHANGED rmVars

NextAdd ==
    \/ \E o \in AddOptions, envFail \in EnvFailures, n \in 0..MaxFiles : AddRun(o, envFail, n)
    \/ NextFile
    \/ AdderSend(MaxEvents)
    \/ AdderEmit
    \/ AddFile
    \/ Finalize
    \/ PinRoot
    \/ ProducerSetError
    \/ CloseOutChan
    \/ RunLoop

(* the add command on its own: the stores of the deletion pipeline are     *)
(* empty and stay so                                                       *)
InitAdd == Init /\ fs = [bs |-> {}, fm |-> {}] /\ pinned = {}

SpecAdd == InitAdd /\ [][NextAdd]_vars

(* the options of a plain  ipfs add *)
PlainAdd ==
    [nocopy |-> FALSE, rbset |-> FALSE, rawblks |-> FALSE, FilestoreEnabled |-> FALSE,
     hash |-> FALSE, dopin |-> TRUE]

(* a plain add whose adder sends enough events to fill the channel *)
NextAddBurst ==
    \/ \E n \in 0..MaxFiles : AddRun(PlainAdd, "none", n)
    \/ NextFile
    \/ AdderSend(MaxBurst)
    \/ AdderEmit
    \/ AddFile
    \/ Finalize
    \/ PinRoot
    \/ ProducerSetError
    \/ CloseOutChan
    \/ RunLoop

SpecAddBurst == InitAdd /\ [][NextAddBurst]_vars

(* ----------------------- the block rm command -------------------------- *)
(* everything but the block rm command's own state *)
notBrmVars == <<cancelled, add, post, resp, apost, storeVars, gcLock, pc, callVars, out, closed, res,
                stillOkay, idx, pending, sent, delLog, calls>>

(* the arguments of a request: at least one, each the textual form of a    *)
(* CID or not                                                              *)
HashArgs == {CidString(c) : c \in CIDs} \cup {BadHash}

RECURSIVE ArgsUpTo(_)
ArgsUpTo(n) ==
    IF n = 0 THEN {<<>>}
    ELSE LET S == ArgsUpTo(n - 1)
         IN  S \cup {Append(a, h) : a \in {t \in S : Len(t) = n - 1}, h \in HashArgs}

BlockRmArgs == ArgsUpTo(MaxLen) \ {<<>>}

(* cid.Decode: the inverse of the textual form, an error for other strings *)
Decode(h) ==
    IF \E c \in CIDs : CidString(c) = h
    THEN [cid |-> CHOOSE c \in CIDs : CidString(c) = h, err |-> ErrNil]
    ELSE [cid |-> 0, err |-> ErrDecode]

(* fmt.Errorf("invalid content id: %s (%s)", hash, err) *)
InvalidCid(h, e) == "invalid content id: " \o h \o " (" \o e \o ")"

(* variant: an argument that does not decode is skipped *)
RECURSIVE DecodeAll_SkipInvalid(_)
DecodeAll_SkipInvalid(hashes) ==
    IF hashes = <<>> THEN [cids |-> <<>>, err |-> ErrNil]
    ELSE LET d == Decode(Head(hashes))
             rest == DecodeAll_SkipInvalid(Tail(hashes))
         IN  IF d.err # ErrNil
             THEN rest
             ELSE [cids |-> <<d.cid>> \o rest.cids, err |-> rest.err]

(* Run's loop over the arguments: the CIDs decoded, or the error of the    *)
(* first argument that does not decode                                     *)
RECURSIVE DecodeAll(_)
DecodeAll(hashes) ==
    IF hashes = <<>> THEN [cids |-> <<>>, err |-> ErrNil]
    ELSE LET d == Decode(Head(hashes))
         IN  IF d.err # ErrNil
             THEN [cids |-> <<>>, err |-> InvalidCid(Head(hashes), d.err)]
             ELSE LET rest == DecodeAll(Tail(hashes))
                  IN  IF rest.err # ErrNil THEN rest
                      ELSE [cids |-> <<d.cid>> \o rest.cids, err |-> ErrNil]

(* Run up to the call of RmBlocks: GetNode, the options, the decoding of   *)
(* every argument                                                          *)
BlockRmRun(args, force, quiet, nodeFail) ==
    /\ brm.runPc = "idle"
    /\ LET d == DecodeAll(args)
       IN  brm' = IF nodeFail
                  THEN [brm EXCEPT !.runPc = "failed", !.args = args,
                                   !.re = Append(@, ReSetError(ErrIO, ErrNormal))]
                  ELSE IF d.err # ErrNil
                  THEN [brm EXCEPT !.runPc = "failed", !.args = args, !.force = force,
                                   !.quiet = quiet,
                                   !.re = Append(@, ReSetError(d.err, ErrNormal))]
                  ELSE [brm EXCEPT !.runPc = "call", !.args = args, !.force = force,
                                   !.quiet = quiet, !.cids = d.cids]
    /\ UNCHANGED notBrmVars

(* util.RmBlocks(n.Blockstore, n.Pinning, cids, opts): the pipeline above  *)
(* on the plain block store; with an empty filestore no pinned block is    *)
(* available elsewhere                                                     *)
UtilRmBlocks ==
    /\ brm.runPc = "call"
    /\ RmBlocks(1, [cids |-> brm.cids, Prefix |-> BlockPrefix, Force |-> brm.force,
                    Quiet |-> brm.quiet])

(* Run:  err = re.Emit(ch)  *)
BlockRmEmit ==
    /\ brm.runPc = "call"
    /\ pc[1] # "idle"
    /\ brm' = [brm EXCEPT !.runPc = "emitted", !.re = Append(@, ReEmit(1))]
    /\ UNCHANGED notBrmVars

NextBlockRm ==
    \/ \E args \in BlockRmArgs, force \in BOOLEAN, quiet \in BOOLEAN, nodeFail \in BOOLEAN :
          BlockRmRun(args, force, quiet, nodeFail)
    \/ UtilRmBlocks
    \/ BlockRmEmit
    \/ GCLock(1)
    \/ PinCheck(1)
    \/ FilterPinned(1)
    \/ Send(1)
    \/ DeleteLoop(1)
    \/ Unlock(1)
    \/ Close(1)
    \/ Receive(1)

(* the node's filestore is empty: block rm works on the block store alone *)
InitBlockRm == Init /\ fs.fm = {}

SpecBlockRm == InitBlockRm /\ [][NextBlockRm]_vars

(* ------------------- block rm: PostRun for the CLI --------------------- *)
notPostVars == <<cancelled, add, brm, resp, apost, storeVars, gcLock, pc, callVars, out, closed, res,
                 stillOkay, idx, pending, sent, delLog, calls>>

(* the values res.Next() can yield: removed-block outcomes and a value of  *)
(* another type                                                            *)
Item(type, hash, e) == [type |-> type, Hash |-> hash, Error |-> e]
PostItems ==
    {Item("RemovedBlock", CidString(1), ""), Item("RemovedBlock", CidString(2), ErrIO),
     Item("RemovedBlock", "", PinCheckFailed), Item("RemovedBlock", "", ""),
     Item("other", "", "")}

RECURSIVE ItemsUpTo(_)
ItemsUpTo(n) ==
    IF n = 0 THEN {<<>>}
    ELSE LET S == ItemsUpTo(n - 1)
         IN  S \cup {Append(a, v) : a \in {t \in S : Len(t) = n - 1}, v \in PostItems}

(* how a response ends: io.EOF, cmds.ErrRcvdError with the error the       *)
(* command set, or another error of Next                                   *)
StreamEnds == {"EOF", "ErrRcvdError", "other"}

(* the error res.Error() returns after ErrRcvdError *)
RcvdError == [Message |-> InvalidCid(BadHash, ErrDecode), Code |-> ErrNormal]

Line(to, text) == [to |-> to, text |-> text]

(* the goroutine of PostRun starts on a response *)
PostRun(items, last) ==
    /\ post.pc = "idle"
    /\ post' = [post EXCEPT !.pc = "loop", !.items = items, !.last = last]
    /\ UNCHANGED notPostVars

(* what follows the loop, with the deferred re.Close() *)
AfterLoop(someFailed) ==
    (IF someFailed THEN <<ReSetError(SomeNotRemoved, ErrNormal)>> ELSE <<>>) \o <<ReClose>>

(* variant: an aborted response does not count as a failure *)
PostRunNext_AbortNotFailed ==
    /\ post.pc = "loop"
    /\ IF post.items = <<>>
       THEN post' =
            IF post.last = "EOF"
            THEN [post EXCEPT !.pc = "done", !.re = @ \o AfterLoop(post.someFailed)]
            ELSE IF post.last = "ErrRcvdError"
            THEN [post EXCEPT !.pc = "done",
                      !.re = @ \o <<ReSetError(RcvdError.Message, RcvdError.Code), ReClose>>]
            ELSE [post EXCEPT !.pc = "done",
                      !.re = @ \o <<ReSetError(ErrContext, ErrNormal), ReClose>>]
       ELSE LET r == Head(post.items)
            IN  post' =
                IF r.type # "RemovedBlock"
                THEN [post EXCEPT !.pc = "done", !.items = Tail(@),
                          !.received = Append(@, r),
                          !.re = @ \o AfterLoop(post.someFailed)]
                ELSE IF r.Hash = "" /\ r.Error # ""
                THEN [post EXCEPT !.pc = "done", !.items = Tail(@),
                          !.received = Append(@, r),
                          !.lines = Append(@, Line("stderr", "aborted: " \o r.Error)),
                          !.re = @ \o AfterLoop(post.someFailed)]
                ELSE IF r.Error # ""
                THEN [post EXCEPT !.items = Tail(@), !.received = Append(@, r),
                          !.someFailed = TRUE,
                          !.lines = Append(@, Line("stderr",
                              "cannot remove " \o r.Hash \o ": " \o r.Error))]
                ELSE [post EXCEPT !.items = Tail(@), !.received = Append(@, r),
                          !.lines = Append(@, Line("stdout", "removed " \o r.Hash))]
    /\ UNCHANGED notPostVars

(* one iteration of PostRun's loop:  v, err = res.Next()  and what it does *)
(* with the result, up to the return of the goroutine when the loop ends   *)
PostRunNext ==
    /\ post.pc = "loop"
    /\ IF post.items = <<>>
       THEN post' =
            IF post.last = "EOF"
            THEN [post EXCEPT !.pc = "done", !.re = @ \o AfterLoop(post.someFailed)]
            ELSE IF post.last = "ErrRcvdError"
            THEN [post EXCEPT !.pc = "done",
                      !.re = @ \o <<ReSetError(RcvdError.Message, RcvdError.Code), ReClose>>]
            ELSE [post EXCEPT !.pc = "done",
                      !.re = @ \o <<ReSetError(ErrContext, ErrNormal), ReClose>>]
       ELSE LET r == Head(post.items)
            IN  post' =
                IF r.type # "RemovedBlock"
                THEN [post EXCEPT !.pc = "done", !.items = Tail(@),
                          !.received = Append(@, r),
                          !.re = @ \o AfterLoop(post.someFailed)]
                ELSE IF r.Hash = "" /\ r.Error # ""
                THEN [post EXCEPT !.pc = "done", !.items = Tail(@),
                          !.received = Append(@, r), !.someFailed = TRUE,
                          !.lines = Append(@, Line("stderr", "aborted: " \o r.Error)),
                          !.re = @ \o AfterLoop(TRUE)]
                ELSE IF r.Error # ""
                THEN [post EXCEPT !.items = Tail(@), !.received = Append(@, r),
                          !.someFailed = TRUE,
                          !.lines = Append(@, Line("stderr",
                              "cannot remove " \o r.Hash \o ": " \o r.Error))]
                ELSE [post EXCEPT !.items = Tail(@), !.received = Append(@, r),
                          !.lines = Append(@, Line("stdout", "removed " \o r.Hash))]
    /\ UNCHANGED notPostVars

NextPostRun ==
    \/ \E items \in ItemsUpTo(MaxStream), last \in StreamEnds : PostRun(items, last)
    \/ PostRunNext

SpecPostRun == InitAdd /\ [][NextPostRun]_vars

(* ------------------- package commands: Response ------------------------ *)
notRespVars == <<cancelled, add, brm, post, apost, storeVars, gcLock, pc, callVars, out,
                 closed, res, stillOkay, idx, pending, sent, delLog, calls>>

(* variant: ErrClient comes first in the order of the error types *)
ErrCode_ClientFirst(t) ==
    IF t = ErrClient THEN 0
    ELSE IF t = ErrNormal THEN 1
    ELSE IF t = ErrImplementation THEN 2
    ELSE 3

(* the numeric value of an error type: ErrNormal, ErrClient,               *)
(* ErrImplementation, ErrNotFound are 0, 1, 2, 3                           *)
ErrCode(t) ==
    IF t = ErrNormal THEN 0
    ELSE IF t = ErrClient THEN 1
    ELSE IF t = ErrImplementation THEN 2
    ELSE 3

(* the JSON text of an output value and of an error *)
OutputJSON(o) ==
    "{\"Foo\":\"" \o o.Foo \o "\",\"Bar\":\"" \o o.Bar \o "\",\"Baz\":"
        \o ToString(o.Baz) \o "}"
ErrorJSON(e) ==
    "{\"Message\":\"" \o e.Message \o "\",\"Code\":" \o ToString(ErrCode(e.Code)) \o "}"

(* Response.Marshal: an error without an encoding; otherwise the encoded   *)
(* error if one is set, else the encoded output                            *)
Marshal(r) ==
    IF r.enc = NoEncoding THEN [err |-> ErrNoEncoding, text |-> ""]
    ELSE IF r.err.set THEN [err |-> ErrNil, text |-> ErrorJSON(r.err)]
    ELSE [err |-> ErrNil, text |-> OutputJSON(r.output)]

(* res.SetOutput(v) *)
RespSetOutput(o) ==
    /\ resp.output # o
    /\ resp' = [resp EXCEPT !.output = o]
    /\ UNCHANGED notRespVars

(* req.SetOption(cmdsutil.EncShort, JSON) *)
RespSetOption(enc) ==
    /\ resp.enc # enc
    /\ resp' = [resp EXCEPT !.enc = enc]
    /\ UNCHANGED notRespVars

(* res.SetError(fmt.Errorf(msg), code) *)
RespSetError(msg, code) ==
    /\ resp.err # [set |-> TRUE, Message |-> msg, Code |-> code]
    /\ resp' = [resp EXCEPT !.err = [set |-> TRUE, Message |-> msg, Code |-> code]]
    /\ UNCHANGED notRespVars

(* reader, err := res.Marshal()  on a response that has an output or an    *)
(* error: what was marshalled and what came out                            *)
RespMarshal ==
    /\ resp.output.set \/ resp.err.set
    /\ Len(resp.marshalled) < MaxMarshals
    /\ resp' = [resp EXCEPT !.marshalled =
                   Append(@, [enc |-> resp.enc, output |-> resp.output, error |-> resp.err,
                              result |-> Marshal(resp)])]
    /\ UNCHANGED notRespVars

NextResponse ==
    \/ \E o \in TestOutputs : RespSetOutput(o)
    \/ RespSetOption(JSON)
    \/ \E msg \in {"Oops!", "no"}, i \in 1..Len(ErrTypes) : RespSetError(msg, ErrTypes[i])
    \/ RespMarshal

SpecResponse == InitAdd /\ [][NextResponse]_vars

(* ---------------------- add: PostRun for the CLI ----------------------- *)
(* everything but the state of add's PostRun *)
notAPostVars == <<cancelled, add, brm, post, resp, storeVars, gcLock, pc, callVars, out,
                  closed, res, stillOkay, idx, pending, sent, delLog, calls>>

(* the SetError calls of the forwarder when res.Next() returns err: one    *)
(* for an error of type *cmdsutil.Error, with its message and code, and    *)
(* one with ErrNormal for every error that is not io.EOF                   *)
FwdSetErrors(e) ==
    (IF e.kind = "cmdsutil.Error" THEN <<ReSetError(e.Message, e.Code)>> ELSE <<>>)
    \o (IF e # IoEOF THEN <<ReSetError(e.Message, ErrNormal)>> ELSE <<>>)

(* the line the printer writes for an event with a hash *)
AddedLine(st, output) ==
    IF st.opts.quiet \/ st.opts.quieter
    THEN output.Hash
    ELSE "added " \o output.Hash \o " " \o output.Name

(* the printer on a progress event (lines 376-385); bar.Add64 returns the  *)
(* bar's new value, which is totalProgress + delta                         *)
Progress(st, output) ==
    LET first == IF st.lastFile = "" THEN output.Name ELSE st.lastFile
        newFile == output.Name # first \/ output.Bytes < st.lastBytes
        prevFiles == IF newFile THEN st.prevFiles + st.lastBytes ELSE st.prevFiles
        delta == prevFiles + output.Bytes - st.totalProgress
    IN  [st EXCEPT !.lastFile = IF newFile THEN output.Name ELSE first,
                   !.prevFiles = prevFiles,
                   !.lastBytes = output.Bytes,
                   !.totalProgress = st.totalProgress + delta,
                   !.totals = Append(@, st.totalProgress + delta)]

(* the printer on one value received from outChan (lines 353-390) *)
Printed(st, output) ==
    LET got == [st EXCEPT !.seen = Append(@, output)]
    IN  IF output.Hash # ""
        THEN IF st.opts.quieter
             THEN [got EXCEPT !.lastHash = output.Hash]
             ELSE [got EXCEPT !.lastHash = output.Hash,
                              !.lines = Append(@, AddedLine(st, output))]
        ELSE IF ~st.opts.progress THEN got ELSE Progress(got, output)

(* PostRun: the forwarder goroutine starts. If the upstream response       *)
(* already has an error it sets it, closes outChan and returns; otherwise  *)
(* it starts the progress printer, which reads the options                 *)
AddPostRun(o, e) ==
    /\ apost.fwdPc = "idle"
    /\ apost' = IF e # NoUpErr
                THEN [apost EXCEPT !.fwdPc = "close", !.opts = o, !.upErr = e,
                                   !.outClosed = TRUE,
                                   !.re = Append(@, ReSetError(e.Message, e.Code))]
                ELSE [apost EXCEPT !.fwdPc = "next", !.prPc = "loop", !.opts = o]
    /\ UNCHANGED notAPostVars

(* the forwarder:  v, err := res.Next() ; a value, or the end of the       *)
(* stream with the SetError calls it leads to                              *)
FwdNext(values, max) ==
    /\ apost.fwdPc = "next"
    /\ \/ /\ apost.taken < max
          /\ \E v \in values :
                apost' = [apost EXCEPT !.fwdPc = "send", !.v = v, !.taken = @ + 1]
       \/ \E e \in UpstreamEnds :
                apost' = [apost EXCEPT !.fwdPc = "closeout", !.upErr = e,
                                       !.re = @ \o FwdSetErrors(e)]
    /\ UNCHANGED notAPostVars

(* outChan <- v  meets  case out, ok := <-outChan : the channel has no     *)
(* buffer, so the forwarder's send and the printer's receive are one step  *)
PrinterRecv ==
    /\ apost.fwdPc = "send"
    /\ apost.prPc = "loop"
    /\ apost' = [Printed(apost, apost.v) EXCEPT !.fwdPc = "next"]
    /\ UNCHANGED notAPostVars

(* the forwarder:  deferred close(outChan) *)
FwdCloseOut ==
    /\ apost.fwdPc = "closeout"
    /\ apost' = [apost EXCEPT !.fwdPc = "wait", !.outClosed = TRUE]
    /\ UNCHANGED notAPostVars

(* the printer receives from the closed outChan, prints the last hash if   *)
(* quieter, leaves the loop; its deferred close(wait) runs                 *)
PrinterClosed ==
    /\ apost.prPc = "loop"
    /\ apost.outClosed
    /\ apost' = [apost EXCEPT !.prPc = "done", !.waitClosed = TRUE,
                              !.lines = IF apost.opts.quieter
                                        THEN Append(@, apost.lastHash) ELSE @]
    /\ UNCHANGED notAPostVars

(* the request's context is cancelled *)
CtxCancel ==
    /\ apost.fwdPc # "idle"
    /\ ~apost.ctxDone
    /\ apost' = [apost EXCEPT !.ctxDone = TRUE]
    /\ UNCHANGED notAPostVars

(* the printer:  case <-req.Context().Done() : it sets the context's error *)
(* and returns; its deferred close(wait) runs                              *)
PrinterCancel ==
    /\ apost.prPc = "loop"
    /\ apost.ctxDone
    /\ apost' = [apost EXCEPT !.prPc = "done", !.waitClosed = TRUE,
                              !.re = Append(@, ReSetError(ErrContext, ErrNormal))]
    /\ UNCHANGED notAPostVars

(* the forwarder:  deferred  <-wait *)
FwdWait ==
    /\ apost.fwdPc = "wait"
    /\ apost.waitClosed
    /\ apost' = [apost EXCEPT !.fwdPc = "close"]
    /\ UNCHANGED notAPostVars

(* the forwarder:  deferred re.Close() *)
FwdClose ==
    /\ apost.fwdPc = "close"
    /\ apost' = [apost EXCEPT !.fwdPc = "done", !.re = Append(@, ReClose)]
    /\ UNCHANGED notAPostVars

(* PostRun with any options, upstream response and cancellation *)
NextAddPost ==
    \/ \E o \in CliOptions, e \in CmdsErrors \cup {NoUpErr} : AddPostRun(o, e)
    \/ FwdNext(AddedObjects, MaxAddEvents)
    \/ PrinterRecv
    \/ FwdCloseOut
    \/ PrinterClosed
    \/ CtxCancel
    \/ PrinterCancel
    \/ FwdWait
    \/ FwdClose

SpecAddPost == InitAdd /\ [][NextAddPost]_vars

(* PostRun with --progress on a stream of progress events *)
NextProgress ==
    \/ AddPostRun(ProgressOnly, NoUpErr)
    \/ FwdNext(ProgressEvents, MaxProgress)
    \/ PrinterRecv
    \/ FwdCloseOut
    \/ PrinterClosed
    \/ FwdWait
    \/ FwdClose

SpecProgress == InitAdd /\ [][NextProgress]_vars

(* ------------------------- auxiliary operators ------------------------- *)
(* the elements of a sequence *)
Range(s) == {s[i] : i \in 1..Len(s)}

(* number of elements of a sequence that are in a set *)
CountIn(s, S) == Cardinality({i \in 1..Len(s) : s[i] \in S})

(* occurrences of CID c in a list *)
Occ(cs, c) == CountIn(cs, {c})

(* DeleteBlock invocations of call p *)
Deletes(p) == {i \in 1..Len(delLog) : delLog[i].proc = p}

NotFoundErrs == {BsErrNotFound, DsErrNotFound}
AbortOutcome == [Hash |-> "", Error |-> PinCheckFailed]
KnownPrefixes == {FilestorePrefix, BlockPrefix}
LockedPcs == {"check", "sendfail", "filter", "fsend", "delete", "dsend", "unlock"}

(* outcomes of call p that carry the hash of c *)
OutcomesFor(p, c) == {i \in 1..Len(sent[p]) : sent[p][i].Hash = CidString(c)}

(* results of CheckIfPinned that FilterPinned refuses *)
Refused(p) ==
    {i \in 1..Len(res[p]) :
        res[p][i].Pinned /\ ~Has(fs0[Sibling(blocks[p])], res[p][i].Key)}

(* ------------------------------- claims -------------------------------- *)

(* C1: pin safety. DeleteBlock is never invoked on the selected backend    *)
(* for a CID that CheckIfPinned reported pinned while the sibling          *)
(* backend's Has for that CID is false.                                    *)
C1_PinSafety ==
    \A i \in 1..Len(delLog) : ~(delLog[i].pinned /\ ~delLog[i].elsewhere)

(* a pinned block was deleted from one backend because the sibling has it *)
C1_Witness ==
    \E i \in 1..Len(delLog) :
        delLog[i].pinned /\ delLog[i].elsewhere /\ delLog[i].err = ErrNil

(* C2: with concurrent RmBlocks calls on the two backends, a pinned CID    *)
(* present in at least one backend before the calls is present in at       *)
(* least one backend at every later moment.                                *)
C2_PinnedSurvives ==
    \A c \in pinned :
        (c \in fs0.bs \cup fs0.fm) => (c \in fs.bs \cup fs.fm)

(* both calls named a pinned CID held by both backends, one on each        *)
(* backend: one deleted its copy, the other was refused                    *)
C2_Witness ==
    \E c \in pinned :
        /\ c \in fs0.bs /\ c \in fs0.fm
        /\ pc[1] = "done" /\ pc[2] = "done"
        /\ blocks[1] # blocks[2]
        /\ cids[1] = <<c>> /\ cids[2] = <<c>>
        /\ \E i \in 1..Len(delLog) : delLog[i].cid = c /\ delLog[i].err = ErrNil
        /\ \E p \in Procs : sent[p] = <<[Hash |-> CidString(c), Error |-> PinReason]>>

(* C3: the worker takes the exclusive GC lock before the pin check, holds  *)
(* it through the last DeleteBlock, and has released it on every exit      *)
(* path (normal completion, pin-check failure, empty input).               *)
C3_LockDiscipline ==
    /\ \A p \in Procs :
        /\ pc[p] \in LockedPcs => gcLock = p
        /\ pc[p] \notin LockedPcs => gcLock # p
        /\ calls[p] # {} => "GCLock" \in calls[p]
    /\ \A i \in 1..Len(delLog) : delLog[i].holder = delLog[i].proc

(* two calls ended, one after deleting a block and one after a pin-check   *)
(* failure, and the lock is free                                           *)
C3_Witness ==
    \E p \in Procs, q \in Procs :
        /\ p # q /\ pc[p] = "done" /\ pc[q] = "done"
        /\ Deletes(p) # {}
        /\ sent[q] = <<AbortOutcome>>
        /\ gcLock = NoLock

(* C4: no send on the outcome channel blocks while the lock is held, even  *)
(* if the consumer never reads: the outcomes sent, including the one being *)
(* sent, never exceed the channel capacity len(cids).                      *)
C4_SendNeverBlocks ==
    \A p \in Procs :
        Len(sent[p]) + (IF pc[p] \in SendPcs THEN 1 ELSE 0) <= Len(cids[p])

(* C5 as stated: each requested CID appears exactly once in the outcome    *)
(* stream of a completed call.                                             *)
C5_ExactlyOnce ==
    \A p \in Procs :
        pc[p] = "done" =>
            \A i \in 1..Len(cids[p]) : Cardinality(OutcomesFor(p, cids[p][i])) = 1

(* delete attempts of call p on c that the options make silent *)
Silent(p, c) ==
    {i \in Deletes(p) :
        /\ delLog[i].cid = c
        /\ \/ delLog[i].err = ErrNil /\ opts[p].Quiet
           \/ delLog[i].err \in NotFoundErrs /\ opts[p].Force}

(* C5 amended: when the pin check fails the stream carries only the abort  *)
(* outcome; otherwise every occurrence of a requested CID yields exactly   *)
(* one outcome, except that a deletion under Quiet and a not-found under   *)
(* Force yield none; no other outcome is sent.                             *)
C5_OncePerOccurrence ==
    \A p \in Procs :
        pc[p] = "done" =>
            \/ sent[p] = <<AbortOutcome>> /\ Deletes(p) = {}
            \/ /\ \A c \in CIDs :
                    Cardinality(OutcomesFor(p, c)) + Cardinality(Silent(p, c))
                        = Occ(cids[p], c)
               /\ \A i \in 1..Len(sent[p]) :
                    \E c \in CIDs : Occ(cids[p], c) > 0 /\ sent[p][i].Hash = CidString(c)

(* a completed call with a repeated CID, a silent delete and an outcome *)
C5_Witness ==
    \E p \in Procs, c \in CIDs :
        /\ pc[p] = "done"
        /\ Len(cids[p]) = 2
        /\ Silent(p, c) # {}
        /\ sent[p] # <<>> /\ sent[p] # <<AbortOutcome>>

(* C6: every result of CheckIfPinned that is pinned and not available in   *)
(* the sibling backend yields exactly one outcome with the CID's hash and  *)
(* the non-empty pin reason, no delete is attempted for that CID, and the  *)
(* block is still in its backend when the call has completed.              *)
C6_PinnedRefused ==
    \A p \in Procs :
        pc[p] = "done" =>
            \A c \in CIDs :
                LET n == Cardinality({i \in Refused(p) : res[p][i].Key = c})
                IN  /\ PinReason # ""
                    /\ Cardinality({i \in OutcomesFor(p, c) :
                                       sent[p][i].Error = PinReason}) = n
                    /\ n > 0 =>
                        /\ Cardinality(OutcomesFor(p, c)) = n
                        /\ \A i \in Deletes(p) : delLog[i].cid # c
                        /\ c \in fs0[blocks[p]] => c \in fs[blocks[p]]

(* a completed call refused a pinned block that its backend holds and      *)
(* deleted another block                                                   *)
C6_Witness ==
    \E p \in Procs :
        /\ pc[p] = "done"
        /\ \E i \in Refused(p) : res[p][i].Key \in fs[blocks[p]]
        /\ \E i \in Deletes(p) : delLog[i].err = ErrNil

(* C7: force semantics. A not-found delete error yields no outcome under   *)
(* Force and an outcome with the CID's hash and a non-empty error without  *)
(* Force; any other delete error yields such an error outcome whatever     *)
(* Force is.                                                               *)
C7_ForceSemantics ==
    \A p \in Procs :
        pc[p] = "done" =>
            \A c \in CIDs :
                LET reported == {i \in Deletes(p) :
                                    /\ delLog[i].cid = c
                                    /\ \/ delLog[i].err = ErrIO
                                       \/ delLog[i].err \in NotFoundErrs /\ ~opts[p].Force}
                IN  /\ \A e \in NotFoundErrs \cup {ErrIO} :
                        Cardinality({i \in OutcomesFor(p, c) : sent[p][i].Error = e})
                            = Cardinality({i \in reported : delLog[i].err = e})
                    /\ \A e \in NotFoundErrs \cup {ErrIO} : e # ""

(* a forced call met both a missing block and a storage failure *)
C7_Witness ==
    \E p \in Procs :
        /\ pc[p] = "done"
        /\ opts[p].Force
        /\ \E i \in Deletes(p) : delLog[i].err \in NotFoundErrs
        /\ \E i \in Deletes(p) : delLog[i].err = ErrIO

(* the outcomes of a stream that carry an error *)
Errors(s) == SelectSeq(s, LAMBDA o : o.Error # "")

(* the storage failures call p met, one flag per DeleteBlock invocation *)
Fails(p) ==
    LET mine == SelectSeq(delLog, LAMBDA e : e.proc = p)
    IN  [k \in 1..Len(mine) |-> mine[k].err = ErrIO]

(* the same request on the same stores and pin set, with the same pin      *)
(* check result and storage failures, and Quiet set to q                   *)
Twin(p, q) ==
    RunWorker(fs0, pinned, blocks[p], [opts[p] EXCEPT !.Quiet = q], cids[p],
              sent[p] = <<AbortOutcome>>, Fails(p))

(* the function agrees with the steps of the worker *)
RunWorkerAgrees ==
    \A p \in Procs :
        pc[p] = "done" =>
            /\ Twin(p, opts[p].Quiet).sent = sent[p]
            /\ Twin(p, opts[p].Quiet).fs = fs

(* C8: Quiet changes only the success notifications. A completed call and  *)
(* the same call with the opposite Quiet produce the same sequence of      *)
(* error-carrying outcomes and leave the same blocks in the stores, and    *)
(* the one with Quiet set emits no outcome without an error.               *)
C8_QuietOnlySuccess ==
    \A p \in Procs :
        pc[p] = "done" =>
            LET other == Twin(p, ~opts[p].Quiet)
                quietRun == IF opts[p].Quiet THEN sent[p] ELSE other.sent
            IN  /\ Errors(other.sent) = Errors(sent[p])
                /\ other.fs = fs
                /\ \A i \in 1..Len(quietRun) : quietRun[i].Error # ""

(* a completed quiet call deleted a block silently and reported an error,  *)
(* while the same call without Quiet reports the deletion too              *)
C8_Witness ==
    \E p \in Procs :
        /\ pc[p] = "done"
        /\ opts[p].Quiet
        /\ \E i \in Deletes(p) : delLog[i].err = ErrNil
        /\ Errors(sent[p]) # <<>>
        /\ Len(Twin(p, FALSE).sent) > Len(sent[p])

(* C9: a call with an unknown prefix returns an error and no channel and   *)
(* starts no worker: the GC lock is never requested, the pin set is never  *)
(* consulted, nothing is sent and no block is deleted.                     *)
C9_UnknownPrefixRejected ==
    \A p \in Procs :
        pc[p] # "idle" =>
            IF opts[p].Prefix \in KnownPrefixes
            THEN retErr[p] = ErrNil /\ pc[p] # "rejected"
            ELSE /\ pc[p] = "rejected"
                 /\ retErr[p] # ErrNil
                 /\ calls[p] = {}
                 /\ Deletes(p) = {}
                 /\ sent[p] = <<>> /\ out[p] = <<>> /\ ~closed[p]
                 /\ gcLock # p

(* a call with an unknown prefix has returned *)
C9_Witness ==
    \E p \in Procs : pc[p] = "rejected" /\ opts[p].Prefix = OtherPrefix /\ cids[p] # <<>>

(* C10: a call with an empty CID list yields a stream that carries no      *)
(* outcome and whose closing waits neither for the GC lock nor for the     *)
(* consumer.                                                               *)
C10_EmptyClosedAtOnce ==
    \A p \in Procs :
        (pc[p] \notin {"idle", "rejected"} /\ cids[p] = <<>>) =>
            /\ sent[p] = <<>>
            /\ pc[p] \notin SendPcs
            /\ pc[p] = "lock" => gcLock = NoLock

(* C11: AvailableElsewhere(fs, foundIn, c) is true exactly when the Has of *)
(* the backend other than foundIn is true for c, in both directions, and   *)
(* its answer does not depend on what the backend foundIn holds.           *)
C11_AskSibling ==
    \A c \in CIDs :
        /\ AvailableElsewhere(fs, "fm", c) = Has(fs.bs, c)
        /\ AvailableElsewhere(fs, "bs", c) = Has(fs.fm, c)
        /\ \A own \in SUBSET CIDs :
            /\ AvailableElsewhere([fs EXCEPT !.fm = own], "fm", c)
                  = AvailableElsewhere(fs, "fm", c)
            /\ AvailableElsewhere([fs EXCEPT !.bs = own], "bs", c)
                  = AvailableElsewhere(fs, "bs", c)

(* FilterPinned kept a pinned key that only the sibling backend holds, and *)
(* the answer for the opposite direction is the opposite one               *)
C11_Witness ==
    \E p \in Procs : \E i \in 1..Len(res[p]) :
        LET c == res[p][i].Key
        IN  /\ pc[p] \in {"delete", "dsend", "unlock", "close", "done"}
            /\ res[p][i].Pinned
            /\ stillOkay[p] # <<>>
            /\ c \in fs[Sibling(blocks[p])] /\ c \notin fs[blocks[p]]
            /\ AvailableElsewhere(fs, blocks[p], c)
            /\ ~AvailableElsewhere(fs, Sibling(blocks[p]), c)

(* a is b with some elements left out *)
RECURSIVE IsSubseq(_, _)
IsSubseq(a, b) ==
    IF a = <<>> THEN TRUE
    ELSE IF b = <<>> THEN FALSE
    ELSE IF Head(a) = Head(b) THEN IsSubseq(Tail(a), Tail(b))
    ELSE IsSubseq(a, Tail(b))

(* the textual forms of a list of CIDs *)
Hashes(cs) == [i \in 1..Len(cs) |-> CidString(cs[i])]

(* the CIDs call p has passed to DeleteBlock, in order *)
Deleted(p) ==
    LET mine == SelectSeq(delLog, LAMBDA e : e.proc = p)
    IN  [k \in 1..Len(mine) |-> mine[k].cid]

(* the outcomes of a stream that do not refuse a pinned block *)
DeleteOutcomes(s) == SelectSeq(s, LAMBDA o : o.Error # PinReason)

(* C12: within one call the pin and availability checks of every requested *)
(* CID are over before the first DeleteBlock; every pinned-rejection       *)
(* outcome precedes every deletion outcome; the deletions and their        *)
(* outcomes keep the relative order of the pin-check results.              *)
C12_FilterThenDelete ==
    \A p \in Procs :
        /\ Deletes(p) # {} =>
            /\ pc[p] \in {"delete", "dsend", "unlock", "close", "done"}
            /\ Len(res[p]) = Len(cids[p])
            /\ Len(stillOkay[p]) + CountIn(sent[p], {o \in Range(sent[p]) : o.Error = PinReason})
                  = Len(res[p])
        /\ \A i \in 1..Len(sent[p]), j \in 1..Len(sent[p]) :
            (i < j /\ sent[p][j].Error = PinReason) => sent[p][i].Error = PinReason
        /\ Deleted(p) = SubSeq(stillOkay[p], 1, Len(Deleted(p)))
        /\ sent[p] # <<AbortOutcome>> =>
            /\ IsSubseq(stillOkay[p], [i \in 1..Len(res[p]) |-> res[p][i].Key])
            /\ IsSubseq([i \in 1..Len(DeleteOutcomes(sent[p])) |->
                            DeleteOutcomes(sent[p])[i].Hash], Hashes(stillOkay[p]))

(* a completed call whose first CID was deleted and whose second CID was   *)
(* refused: the refusal is the first outcome and the deletion the second   *)
C12_Witness ==
    \E p \in Procs :
        /\ pc[p] = "done"
        /\ Len(cids[p]) = 2 /\ cids[p][1] # cids[p][2]
        /\ Deleted(p) = <<cids[p][1]>>
        /\ sent[p] = <<[Hash |-> CidString(cids[p][2]), Error |-> PinReason],
                       [Hash |-> CidString(cids[p][1]), Error |-> ""]>>

(* C13: once the caller has cancelled while the worker is in its delete    *)
(* loop, no further block is deleted, and a call that had a block left to  *)
(* delete when it was cancelled reports a cancellation error distinct from *)
(* the other outcomes.                                                     *)
C13_CancelStopsDeletes ==
    \A p \in Procs :
        /\ \A i \in Deletes(p) : ~delLog[i].cancelled
        /\ (\E i \in Deletes(p) : delLog[i].cancelled) =>
            \E i \in 1..Len(sent[p]) :
                sent[p][i].Error \notin {"", PinReason, PinCheckFailed, ErrIO} \cup NotFoundErrs

(* the positions of the adder's log where a call was made *)
CallsOf(name) == {i \in 1..Len(add.log) : add.log[i].call = name}

(* C14: add never runs with NoCopy enabled and RawLeaves disabled. A       *)
(* request with nocopy fails before an adder exists when the filestore is  *)
(* disabled or raw-leaves is explicitly false; otherwise the adder has     *)
(* RawLeaves set whenever it has NoCopy set.                               *)
C14_NoCopyNeedsRawLeaves ==
    /\ add.adder.created => (add.adder.NoCopy => add.adder.RawLeaves)
    /\ add.adder.created => add.adder.NoCopy = add.opts.nocopy
    /\ (add.runPc # "idle" /\ add.opts.nocopy
          /\ (~add.opts.FilestoreEnabled \/ (add.opts.rbset /\ ~add.opts.rawblks))) =>
            /\ add.runPc = "failed"
            /\ ~add.adder.created
            /\ add.log = <<>> /\ add.prodPc = "idle"
            /\ Len(add.re) = 1 /\ add.re[1].op = "SetError" /\ add.re[1].err # ErrNil
    /\ add.log # <<>> => add.adder.created

(* a nocopy request without --raw-leaves has added a file with an adder    *)
(* whose RawLeaves was switched on                                         *)
C14_Witness ==
    /\ add.opts.nocopy /\ ~add.opts.rbset
    /\ add.adder.created /\ add.adder.NoCopy /\ add.adder.RawLeaves
    /\ \E i \in CallsOf("AddFile") : add.log[i].err = ErrNil

(* C15: with only-hash, add never calls PinRoot whatever the pin option    *)
(* is, and builds against a throwaway node (nil repo, mock MFS root): the  *)
(* real node's block store and pin set are unchanged.                      *)
C15_OnlyHashTouchesNothing ==
    (add.runPc # "idle" /\ add.opts.hash) =>
        /\ CallsOf("PinRoot") = {}
        /\ add.adder.created => (add.adder.node = "nil" /\ add.adder.MfsRoot = "mock")
        /\ add.blocks.real = AddInit.blocks.real
        /\ add.pins.real = AddInit.pins.real
        /\ add.pins.nil = {}

(* an only-hash add with the pin option set added a file and finished      *)
C15_Witness ==
    /\ add.opts.hash /\ add.opts.dopin
    /\ add.prodPc = "done" /\ add.err = ErrNil
    /\ \E i \in CallsOf("Finalize") : add.log[i].err = ErrNil
    /\ add.blocks.nil # {}

(* C16: the steps of an add session are ordered. Finalize comes only after *)
(* AddFile has succeeded for every input, PinRoot only after Finalize has  *)
(* succeeded, and the first error of NextFile, AddFile or Finalize aborts  *)
(* the rest.                                                               *)
C16_SessionOrder ==
    /\ \A i \in 1..Len(add.log) :
        /\ add.log[i].err \notin {ErrNil, "EOF"} =>
            (i = Len(add.log) /\ add.err = add.log[i].err)
        /\ add.log[i].call = "AddFile" =>
            (i > 1 /\ add.log[i - 1] = AdderCall("NextFile", ErrNil))
        /\ add.log[i].call = "Finalize" =>
            /\ i > 1 /\ add.log[i - 1] = AdderCall("NextFile", "EOF")
            /\ add.files = 0
            /\ \A j \in 1..(i - 1) : add.log[j].err \in {ErrNil, "EOF"}
            /\ Cardinality({j \in CallsOf("AddFile") : j < i /\ add.log[j].err = ErrNil})
                  = add.fileNo
        /\ add.log[i].call = "PinRoot" =>
            (i > 1 /\ add.log[i - 1] = AdderCall("Finalize", ErrNil))
    /\ Cardinality(CallsOf("Finalize")) <= 1
    /\ Cardinality(CallsOf("PinRoot")) <= 1

(* two files were added, the session was finalized and the root pinned *)
C16_Witness ==
    /\ add.prodPc = "done"
    /\ add.log = <<AdderCall("NextFile", ErrNil), AdderCall("AddFile", ErrNil),
                   AdderCall("NextFile", ErrNil), AdderCall("AddFile", ErrNil),
                   AdderCall("NextFile", "EOF"), AdderCall("Finalize", ErrNil),
                   AdderCall("PinRoot", ErrNil)>>
    /\ RootBlock \in add.pins.real

(* the values the Run loop has emitted, in order *)
Emitted ==
    LET es == SelectSeq(add.re, LAMBDA r : r.op = "Emit")
    IN  [i \in 1..Len(es) |-> es[i].v]

(* C17: an ingestion failure is never dropped. Whenever addAllAndPin has   *)
(* returned an error, the error is set on the response emitter before the  *)
(* emitter is closed, and when the command has ended every event the adder *)
(* sent before the failure has been emitted.                               *)
C17_FailureReported ==
    /\ (add.err # ErrNil /\ ReClose \in Range(add.re)) =>
        \E i \in 1..Len(add.re), j \in 1..Len(add.re) :
            i < j /\ add.re[i] = ReSetError(add.err, ErrNormal) /\ add.re[j] = ReClose
    /\ (add.err # ErrNil /\ add.runPc = "returned") =>
        Emitted = [i \in 1..add.produced |-> i]

(* C18: the events of add pass through a first-in first-out buffer of 8.   *)
(* The channel never holds more than 8 events, the adder's send waits      *)
(* while it is full, and the Run loop emits the events in the order the    *)
(* adder sent them.                                                        *)
C18_BoundedFifo ==
    /\ Len(add.outChan) <= OutChanCap
    /\ \A i \in 1..Len(add.outChan) :
        add.outChan[i] = add.produced - Len(add.outChan) + i
    /\ \A i \in 1..Len(Emitted) : Emitted[i] = i
    /\ Len(Emitted) + Len(add.outChan) <= add.produced

(* the adder filled the channel, waited, and sent its ninth event after    *)
(* the Run loop had emitted the first                                      *)
C18_Witness ==
    /\ add.produced = OutChanCap + 1
    /\ Len(add.outChan) = OutChanCap
    /\ Emitted = <<1>>

(* the arguments of the request that do not decode *)
BadArgs == {i \in 1..Len(brm.args) : Decode(brm.args[i]).err # ErrNil}

(* C19: block rm validates every argument before any mutation. If an       *)
(* argument does not decode, Run sets an 'invalid content id' error and    *)
(* returns without calling RmBlocks: no block is removed, those named by   *)
(* valid arguments before the invalid one included.                        *)
C19_ValidateBeforeRemove ==
    /\ (brm.runPc # "idle" /\ BadArgs # {}) =>
        /\ brm.runPc = "failed"
        /\ Len(brm.re) = 1 /\ brm.re[1].op = "SetError"
        /\ \/ brm.re[1].err = ErrIO
           \/ \E i \in BadArgs :
                /\ \A j \in BadArgs : i <= j
                /\ brm.re[1].err = "invalid content id: " \o brm.args[i]
                                       \o " (" \o ErrDecode \o ")"
        /\ pc[1] = "idle" /\ calls[1] = {}
        /\ delLog = <<>> /\ fs = fs0
    /\ pc[1] # "idle" =>
        /\ BadArgs = {}
        /\ Hashes(cids[1]) = brm.args

(* a request naming a removable block and then an invalid argument has     *)
(* failed, and the block is still there                                    *)
C19_Witness ==
    \E c \in CIDs :
        /\ brm.runPc = "failed"
        /\ brm.args = <<CidString(c), BadHash>>
        /\ c \in fs.bs /\ c \notin pinned
        /\ brm.re = <<ReSetError(InvalidCid(BadHash, ErrDecode), ErrNormal)>>

(* the removed-block outcomes PostRun has received *)
Outcomes == SelectSeq(post.received, LAMBDA r : r.type = "RemovedBlock")

(* the line PostRun prints for an outcome *)
Report(r) ==
    IF r.Hash = "" /\ r.Error # "" THEN Line("stderr", "aborted: " \o r.Error)
    ELSE IF r.Error # "" THEN Line("stderr", "cannot remove " \o r.Hash \o ": " \o r.Error)
    ELSE Line("stdout", "removed " \o r.Hash)

(* every outcome received is reported by its own line, in order, and an    *)
(* outcome with an error and an empty hash is the last value taken         *)
ReportsEach ==
    /\ post.lines = [i \in 1..Len(Outcomes) |-> Report(Outcomes[i])]
    /\ \A i \in 1..Len(post.received) :
        (post.received[i].Hash = "" /\ post.received[i].Error # "") =>
            i = Len(post.received)

(* C20 as stated: PostRun reports every outcome it receives on its own     *)
(* line, sets the final error 'some blocks not removed' exactly when some  *)
(* received outcome carried an error, and stops at an outcome with an      *)
(* error and an empty hash.                                                *)
C20_SomeNotRemovedIff ==
    post.pc = "done" =>
        /\ ReportsEach
        /\ ReSetError(SomeNotRemoved, ErrNormal) \in Range(post.re)
              <=> \E i \in 1..Len(Outcomes) : Outcomes[i].Error # ""

(* the loop ended because Next returned an error other than io.EOF *)
EndedByError ==
    /\ post.items = <<>> /\ post.last # "EOF"
    /\ post.received # <<>> =>
        LET r == post.received[Len(post.received)]
        IN  r.type = "RemovedBlock" /\ ~(r.Hash = "" /\ r.Error # "")

(* C20 amended: PostRun reports every outcome it receives on its own line  *)
(* and stops at an outcome with an error and an empty hash. When Next      *)
(* returns an error other than io.EOF, PostRun sets that error and nothing *)
(* else; otherwise it sets 'some blocks not removed' exactly when some     *)
(* received outcome carried an error. It closes the emitter last.          *)
C20_SomeNotRemovedUnlessError ==
    post.pc = "done" =>
        /\ ReportsEach
        /\ post.re[Len(post.re)] = ReClose
        /\ IF EndedByError
           THEN post.re \in {<<ReSetError(RcvdError.Message, RcvdError.Code), ReClose>>,
                             <<ReSetError(ErrContext, ErrNormal), ReClose>>}
           ELSE /\ ReSetError(SomeNotRemoved, ErrNormal) \in Range(post.re)
                      <=> \E i \in 1..Len(Outcomes) : Outcomes[i].Error # ""
                /\ Len(post.re) <= 2

(* PostRun reported a removal and a failure, met the end of the response   *)
(* and set the final error                                                 *)
C20_Witness ==
    /\ post.pc = "done"
    /\ Len(post.received) = 2 /\ post.items = <<>> /\ post.last = "EOF"
    /\ post.lines = <<Line("stdout", "removed " \o CidString(1)),
                      Line("stderr", "cannot remove " \o CidString(2) \o ": " \o ErrIO)>>
    /\ post.re = <<ReSetError(SomeNotRemoved, ErrNormal), ReClose>>

PinCheckHasFailed(p) ==
    \/ pending[p] = AbortOutcome
    \/ sent[p] # <<>> /\ sent[p][1] = AbortOutcome

(* C22: when CheckIfPinned returns an error, RmBlocks deletes no block,    *)
(* emits exactly one outcome, with an empty hash and a 'pin check failed'  *)
(* error, while it holds the lock and the stream is open, and has released *)
(* the lock and closed the stream when it ends.                            *)
C22_PinCheckFailure ==
    \A p \in Procs :
        PinCheckHasFailed(p) =>
            /\ Deletes(p) = {} /\ "DeleteBlock" \notin calls[p]
            /\ fs = fs0
            /\ AbortOutcome.Hash = "" /\ AbortOutcome.Error # ""
            /\ sent[p] \in {<<>>, <<AbortOutcome>>}
            /\ pc[p] = "sendfail" => (sent[p] = <<>> /\ gcLock = p /\ ~closed[p])
            /\ pc[p] # "sendfail" =>
                (sent[p] = <<AbortOutcome>> /\ pc[p] \in {"unlock", "close", "done"})
            /\ pc[p] = "close" => (gcLock # p /\ ~closed[p])
            /\ pc[p] = "done" => (gcLock # p /\ closed[p])

(* a call on two blocks that are in the store has ended after a failed pin *)
(* check: one abort outcome, both blocks still there                       *)
C22_Witness ==
    \E p \in Procs :
        /\ pc[p] = "done"
        /\ Len(cids[p]) = 2
        /\ \A i \in 1..2 : cids[p][i] \in fs[blocks[p]]
        /\ sent[p] = <<AbortOutcome>>
        /\ closed[p] /\ gcLock = NoLock

(* C23: the outcome stream is closed only after the GC lock has been       *)
(* released: whenever the channel of a call is closed the call does not    *)
(* hold the lock, and from then on it neither takes the lock nor deletes.  *)
C23_CloseAfterUnlock ==
    /\ [](\A p \in Procs : closed[p] => (gcLock # p /\ pc[p] = "done"))
    /\ [][\A p \in Procs : closed[p] => (gcLock' # p /\ Deletes(p)' = Deletes(p))]_vars

(* the channel of a call that deleted a block is closed while the other    *)
(* call holds the lock                                                     *)
C23_Witness ==
    \E p \in Procs, q \in Procs :
        /\ closed[p]
        /\ \E i \in Deletes(p) : delLog[i].err = ErrNil
        /\ gcLock = q /\ q # p

(* C24: the 'invalid pointer for foundIn' panic is unreachable through     *)
(* RmBlocks: every worker runs with one of the Filestore's two backends as *)
(* its Deleter, so AvailableElsewhere is never asked about anything else.  *)
C24_NoPanic ==
    \A p \in Procs :
        /\ pc[p] \notin {"idle", "rejected"} =>
            (opts[p].Prefix \in KnownPrefixes /\ blocks[p] \in {"fm", "bs"})
        /\ (gcLock = p \/ "CheckIfPinned" \in calls[p]) => blocks[p] \in {"fm", "bs"}
        /\ (pc[p] # "idle" /\ opts[p].Prefix \in KnownPrefixes) =>
            (pc[p] # "rejected" /\ SelectDeleter(opts[p].Prefix) \in {"fm", "bs"})

(* a call with an accepted prefix has asked AvailableElsewhere about a     *)
(* pinned block and has ended with the lock free and the stream closed     *)
C24_Witness ==
    \E p \in Procs :
        /\ pc[p] = "done"
        /\ \E i \in 1..Len(res[p]) : res[p][i].Pinned
        /\ blocks[p] \in {"fm", "bs"}
        /\ closed[p] /\ gcLock = NoLock

(* C25: the producer goroutine of add always comes to its end and closes   *)
(* the event channel, also when the Run loop has stopped reading after a   *)
(* failed Emit: the adder is never at a send on the full channel once Run  *)
(* has returned, for no one would receive from the channel again.          *)
C25_ProducerNeverStuck ==
    ~(add.runPc = "returned" /\ add.sending /\ Len(add.outChan) = OutChanCap)

(* the positions of the SetError calls made with message msg *)
SetErrorsWith(msg) ==
    {i \in 1..Len(apost.re) : apost.re[i].op = "SetError" /\ apost.re[i].err = msg}

(* C26: when the upstream response of add ends with an error of type       *)
(* cmdsutil.Error, PostRun sets the downstream emitter's error exactly     *)
(* once, with that error's message and code; when it ends with io.EOF the  *)
(* forwarder sets no error (the only error then set is the printer's       *)
(* cancellation error).                                                    *)
C26_ErrorSetOnce ==
    /\ apost.upErr.kind = "cmdsutil.Error" =>
        /\ Cardinality(SetErrorsWith(apost.upErr.Message)) = 1
        /\ \A i \in SetErrorsWith(apost.upErr.Message) : apost.re[i].code = apost.upErr.Code
    /\ apost.upErr = IoEOF =>
        \A i \in 1..Len(apost.re) :
            apost.re[i].op = "SetError" => apost.re[i].err = ErrContext

(* C27: PostRun of add closes the downstream emitter only after outChan    *)
(* is closed and the progress printer, if started, has finished, and it    *)
(* always comes to close it: the forwarder is never at its send on outChan *)
(* when the printer has stopped receiving.                                 *)
C27_CloseAfterPrinter ==
    /\ ReClose \in Range(apost.re) => (apost.outClosed /\ apost.prPc \in {"idle", "done"})
    /\ ~(apost.fwdPc = "send" /\ apost.prPc = "done")

(* event i of history h has another name than its predecessor, or fewer    *)
(* bytes                                                                   *)
NewFileAt(h, i) == i > 1 /\ (h[i].Name # h[i - 1].Name \/ h[i].Bytes < h[i - 1].Bytes)

(* the last byte counts of the files that ended before the last event of h *)
RECURSIVE EndedFiles(_)
EndedFiles(h) ==
    IF Len(h) <= 1 THEN 0
    ELSE EndedFiles(SubSeq(h, 1, Len(h) - 1))
         + (IF NewFileAt(h, Len(h)) THEN h[Len(h) - 1].Bytes ELSE 0)

(* C28: for any sequence of progress events the total the printer shows    *)
(* never decreases and is, after each event, the bytes of the files that   *)
(* ended before it plus the bytes of the event, a file ending where the    *)
(* name changes or the bytes drop; the printer's prevFiles is that sum.    *)
C28_ProgressTotal ==
    /\ Len(apost.totals) = Len(apost.seen)
    /\ apost.totalProgress = apost.prevFiles + apost.lastBytes
    /\ \A i \in 2..Len(apost.totals) : apost.totals[i] >= apost.totals[i - 1]
    /\ apost.prevFiles = EndedFiles(apost.seen)
    /\ \A i \in 1..Len(apost.totals) :
        apost.totals[i] = EndedFiles(SubSeq(apost.seen, 1, i)) + apost.seen[i].Bytes

====
